---- MODULE Spec2Model ----
(***************************************************************************)
(* Voice dispatch agent: the per-call session store (active_calls), the    *)
(* LLM websocket handler with its ping task, the two call finalizers       *)
(* (recording_webhook and finalize_call_on_disconnect) and the call_results*)
(* table they write to.                                                    *)
(*                                                                         *)
(* All handlers are coroutines of one asyncio event loop.  A step of the   *)
(* model is the code a coroutine runs between two points where it really   *)
(* suspends: websocket accept/send/receive, asyncio.sleep and the await of *)
(* a task that is not done.  The OpenAI client and psycopg2 are blocking   *)
(* libraries, and awaiting a coroutine that never suspends does not yield, *)
(* so the policy call and update_call_result run inside the step that      *)
(* calls them.                                                             *)
(***************************************************************************)
EXTENDS Integers, Sequences, FiniteSets, TLC

VARIABLES
    dbState,        \* the database: "unconfigured" (a setting of DB_USER, DB_PASSWORD,
                    \* DB_HOST, DB_NAME is missing), "down" (connections or statements
                    \* fail) or "up"
    active_calls,   \* calls.py: the process-wide dict call_id -> call data
    sessGen,        \* per call_id: how many times a dict was stored under it
    regd,           \* call ids create_web_call has registered
    createTasks,    \* create_call_database_record tasks scheduled, not yet run
    created,        \* call ids for which create_call_result was issued
    db,             \* call_results: call_id -> row
    hpc,            \* llm_websocket: where the handler of a connection is
    hlocal,         \* llm_websocket: driver_name, load_number, pending response
    ping,           \* the send_ping_pong task of a connection
    outbound,       \* messages sent on the connection, in order
    lastTurn,       \* the last turn the handler processed on a connection
    nTurns,         \* turns processed so far on a connection
    finalizations,  \* every finalizer run, in order, with the write it issued
    notified,       \* per call_id: recording webhooks received
    timeouts,       \* per call_id: receive timeouts of the connection
    received,       \* per call_id: how many messages the handler has consumed,
                    \* and the last of them
    metadata        \* per call_id: the metadata its call was created with at Retell

vars == <<dbState, active_calls, sessGen, regd, createTasks, created, db,
          hpc, hlocal, ping, outbound, lastTurn, nTurns, finalizations,
          notified, timeouts, received, metadata>>

----------------------------------------------------------------------------
(* Bounds of the model. *)

MaxTurns == 2           \* response_required turns processed, all calls together
MaxNotifications == 1   \* recording webhooks received, all calls together
MaxPings == 1           \* ping_pong messages emitted per connection
MaxTimeouts == 2        \* receive timeouts per connection
MaxDiscarded == 2       \* messages consumed without a turn, per connection

CallIds == {"c1", "c2"}

----------------------------------------------------------------------------
(* Python values.  A value of a JSON mapping is tagged with its type, so    *)
(* that None, "", False and 0 stay distinct as they are in Python.          *)

PyNone == <<"None">>
PyStr(s) == <<"str", s>>
PyBool(b) == <<"bool", b>>
PyNum(tenths) == <<"num", tenths>>
PyFmt(parts) == <<"fstr", parts>>      \* an f-string, by its parts

(* dict operations *)
EmptyDict == [k \in {} |-> TRUE]
Get(d, k, default) == IF k \in DOMAIN d THEN d[k] ELSE default
Put(d, k, v) == [y \in DOMAIN d \cup {k} |-> IF y = k THEN v ELSE d[y]]
Update(d, e) == [y \in DOMAIN d \cup DOMAIN e |-> IF y \in DOMAIN e THEN e[y] ELSE d[y]]
Remove(d, k) == [y \in DOMAIN d \ {k} |-> d[y]]
Restrict(d, ks) == [y \in DOMAIN d \cap ks |-> d[y]]

(* bool(x) of a list or a dict *)
Truthy(v) == DOMAIN v /= {}

(* str.strip() on a string kept as a sequence of characters *)
RECURSIVE LStrip(_)
LStrip(s) == IF s /= <<>> /\ Head(s) = " " THEN LStrip(Tail(s)) ELSE s

Reverse(s) == [i \in 1..Len(s) |-> s[Len(s) + 1 - i]]

Strip(s) == Reverse(LStrip(Reverse(LStrip(s))))

LastN(s, n) == IF Len(s) <= n THEN s ELSE SubSeq(s, Len(s) - n + 1, Len(s))

----------------------------------------------------------------------------
(* Inputs: registration requests, transcripts, policy replies. *)

U_hi == <<"h", "i">>
U_blank == <<" ">>
U_stuck == <<" ", "s", "o", "s">>
A_greet == <<"g", "o">>

E(role, content) == [role |-> role, content |-> content]

(* Retell resends the whole history with each message: the transcript of    *)
(* the n-th turn of a connection is the first n exchanges of the call       *)
RECURSIVE Transcript(_)
Transcript(n) ==
    IF n = 0 THEN <<>>
    ELSE Transcript(n - 1)
         \o <<E("agent", A_greet), E("user", IF n % 2 = 1 THEN U_hi ELSE U_stuck)>>

T_nouser == <<E("agent", A_greet), E("user", U_blank)>>
T_authoritative == Transcript(1) \o <<E("agent", A_greet)>>

A_ok == <<"o", "k">>

(* the utterance is not the last entry, is said twice, comes with blanks     *)
(* around it; more than six entries can go into the context                  *)
T_long ==
    <<E("agent", A_greet), E("user", U_hi), E("agent", A_ok), E("user", U_stuck),
      E("agent", A_greet), E("user", U_blank), E("agent", A_ok), E("user", U_hi),
      E("agent", A_greet), E("user", <<"s", "o", "s", " ">>)>>

(* transcripts a message on the websocket carries *)
InboundTranscripts ==
    {<<>>, T_nouser, Transcript(1), Transcript(2), T_authoritative, T_long}

(* messages Retell sends on the websocket: response_required with and        *)
(* without response_id, ping_pong, update_only, another interaction type, a  *)
(* message without a type                                                    *)
InboundMessages ==
    { [interaction_type |-> "response_required", response_id |-> 7, transcript |-> t] :
          t \in InboundTranscripts }
    \cup
    { [interaction_type |-> "response_required", transcript |-> Transcript(1)],
      [response_type |-> "ping_pong", timestamp |-> 0],
      [interaction_type |-> "update_only", transcript |-> Transcript(2)],
      [interaction_type |-> "reminder_required", response_id |-> 3,
       transcript |-> Transcript(1)],
      [call |-> "details"] }

(* transcripts a recording webhook carries *)
WebhookTranscripts == {<<>>, T_authoritative}

(* bodies of POST /trigger-call: a CallRequest has the three fields *)
PhoneRequests ==
    { [driver_name |-> "Ann", phone_number |-> "556", load_number |-> "77"] }

(* bodies of POST /create-test-call *)
RegRequests ==
    { [driver_name |-> "Sam", load_number |-> "482", phone_number |-> "555"] }

ToolNames == {"handle_routine_checkin", "handle_emergency_protocol", "end_call"}

ToolCall(name, arguments) == [name |-> name, valid |-> TRUE, arguments |-> arguments]

TC_routine ==
    ToolCall("handle_routine_checkin",
             [response_text |-> "and your eta", driver_status |-> PyStr("Driving"),
              current_location |-> PyStr(""), eta |-> PyNone,
              is_emergency |-> PyBool(TRUE), should_end_call |-> PyBool(TRUE)])
TC_emergency ==
    ToolCall("handle_emergency_protocol",
             [response_text |-> "are you safe", call_outcome |-> PyStr("Emergency Detected"),
              emergency_type |-> PyStr("Accident"), current_location |-> PyStr("mile 12")])
TC_end ==
    ToolCall("end_call",
             [response_text |-> "drive safely", call_complete |-> PyBool(TRUE),
              reason |-> PyStr("All data collected")])
TC_malformed ==
    [name |-> "handle_routine_checkin", valid |-> FALSE, arguments |-> EmptyDict]

LLMReply(raised, tool_calls) == [raised |-> raised, tool_calls |-> tool_calls]

(* what client.chat.completions.create comes back with when it selects one  *)
(* tool                                                                      *)
LLMReplies ==
    { LLMReply(FALSE, <<TC_routine>>),
      LLMReply(FALSE, <<TC_emergency>>),
      LLMReply(FALSE, <<TC_end>>) }

(* everything it can come back with *)
AllLLMReplies ==
    LLMReplies \cup
    { LLMReply(TRUE, <<>>),                       \* timeout, API error
      LLMReply(FALSE, <<>>),                      \* no tool call in the message
      LLMReply(FALSE, <<TC_emergency, TC_end>>),  \* parallel tool calls
      LLMReply(FALSE, <<TC_end, TC_routine>>),
      LLMReply(FALSE, <<TC_malformed>>) }         \* arguments are not JSON

----------------------------------------------------------------------------
(* a greeting that does not name the driver *)
generate_first_message_generic(driver_name, load_number) ==
    PyFmt(<<"Hi ", "Driver", ", this is Dispatch calling about load ",
            load_number, ". Can you give me an update on your status?">>)

(* websocket.py: generate_first_message_simple *)
generate_first_message_simple(driver_name, load_number) ==
    PyFmt(<<"Hi ", driver_name, ", this is Dispatch calling about load ",
            load_number, ". Can you give me an update on your status?">>)

FallbackText == "I understand. Can you provide more details about your current status?"
DefaultResponseText == "I understand. Can you provide more details?"

(* the flag set for every tool but the routine check-in *)
ToolMetadataNotRoutine(tool_name) ==
    [tool_used |-> PyStr(tool_name),
     is_emergency |-> PyBool(tool_name /= "handle_routine_checkin"),
     should_end_call |-> PyBool(tool_name = "end_call")]

(* websocket.py 419-424: the data of a tool call, with the metadata on it *)
ToolMetadata(tool_name) ==
    [tool_used |-> PyStr(tool_name),
     is_emergency |-> PyBool(tool_name = "handle_emergency_protocol"),
     should_end_call |-> PyBool(tool_name = "end_call")]

(* a failure of the chat completion asks for the call to be ended *)
ExtractionEndingOnFailure(reply) ==
    IF reply.raised \/ reply.tool_calls = <<>> \/ ~reply.tool_calls[1].valid
    THEN [text |-> FallbackText,
          data |-> [is_emergency |-> PyBool(FALSE), confidence |-> PyNum(1),
                    should_end_call |-> PyBool(TRUE)]]
    ELSE [text |-> Get(reply.tool_calls[1].arguments, "response_text", DefaultResponseText),
          data |-> Update(Remove(reply.tool_calls[1].arguments, "response_text"),
                          ToolMetadata(reply.tool_calls[1].name))]

(* websocket.py: generate_llm_response_with_extraction, from the reply of    *)
(* the chat completion on: <<response_text, extracted_data>>                 *)
generate_llm_response_with_extraction(reply) ==
    IF reply.raised \/ (reply.tool_calls /= <<>> /\ ~reply.tool_calls[1].valid)
    THEN [text |-> FallbackText,
          data |-> [is_emergency |-> PyBool(FALSE), confidence |-> PyNum(1),
                    error |-> PyStr("exception")]]
    ELSE IF reply.tool_calls /= <<>>
    THEN LET tool_call == reply.tool_calls[1]
             args == tool_call.arguments
         IN  [text |-> Get(args, "response_text", DefaultResponseText),
              data |-> Update(Remove(args, "response_text"),
                              ToolMetadata(tool_call.name))]
    ELSE [text |-> FallbackText,
          data |-> [is_emergency |-> PyBool(FALSE), confidence |-> PyNum(5),
                    call_outcome |-> PyStr("In Progress")]]

(* the last entry with non-blank content, whoever spoke *)
UserInputAnyRole(transcript) ==
    LET idx == {i \in 1..Len(transcript) : Strip(transcript[i].content) /= <<>>}
    IN  IF idx = {} THEN <<>>
        ELSE Strip(transcript[CHOOSE i \in idx : \A j \in idx : j <= i].content)

(* websocket.py 75-80: the last user entry with non-blank content, stripped *)
UserInput(transcript) ==
    LET idx == {i \in 1..Len(transcript) :
                    /\ transcript[i].role = "user"
                    /\ Strip(transcript[i].content) /= <<>>}
    IN  IF idx = {} THEN <<>>
        ELSE Strip(transcript[CHOOSE i \in idx : \A j \in idx : j <= i].content)

HistoryLimit == 6

(* websocket.py 84-96: conversation_history *)
ConversationHistory(transcript, user_input) ==
    LET body == SubSeq(transcript, 1, Len(transcript) - 1)
        Keep(e) == /\ Strip(e.content) /= <<>>
                   /\ Strip(e.content) /= user_input
        kept == SelectSeq(body, Keep)
        entries == [i \in 1..Len(kept) |->
                       [role |-> IF kept[i].role = "agent" THEN "assistant" ELSE "user",
                        content |-> Strip(kept[i].content)]]
    IN  LastN(entries, HistoryLimit)

(* no filter: every incoming value is merged *)
MergeFilterNone(extracted_data) == extracted_data

(* the filter keeps the values that are true in Python: a False is dropped *)
MergeFilterTruthy(extracted_data) ==
    Restrict(extracted_data,
             {k \in DOMAIN extracted_data :
                  /\ extracted_data[k] /= PyNone
                  /\ extracted_data[k] /= PyStr("")
                  /\ extracted_data[k] /= PyBool(FALSE)})

(* websocket.py 113-116: the filter of the merge *)
MergeFilter(extracted_data) ==
    Restrict(extracted_data,
             {k \in DOMAIN extracted_data :
                  extracted_data[k] /= PyNone /\ extracted_data[k] /= PyStr("")})

(* the data of the turn take the place of the accumulated data *)
MergeExtractedReplaces(accumulated, extracted_data) ==
    MergeFilter(extracted_data)

(* websocket.py 113-116: dict.update of the accumulated data *)
MergeExtracted(accumulated, extracted_data) ==
    Update(accumulated, MergeFilter(extracted_data))

----------------------------------------------------------------------------
(* database.py: the call_results table *)

SimpleColumns == {"call_status", "call_outcome", "driver_status", "current_location",
                  "eta", "emergency_type", "emergency_location", "escalation_status"}
JsonColumns == {"full_transcript", "structured_data"}

(* database.py 229: json.dumps(value) if value else None *)
JsonOrNull(value) == IF Truthy(value) THEN <<"json", value>> ELSE PyNone

(* database.py 222-236: the SET clauses of the UPDATE *)
SetClauses(update_data) ==
    [k \in (DOMAIN update_data \cap (SimpleColumns \cup JsonColumns \cup {"call_ended_at"}))
           \cup {"updated_at"} |->
        IF k \in SimpleColumns THEN update_data[k]
        ELSE IF k \in JsonColumns THEN JsonOrNull(update_data[k])
        ELSE <<"NOW()">>]

(* database.py 189-203: the row create_call_result inserts *)
NewRow(call_data) ==
    [call_id |-> PyStr(call_data["call_id"]),
     driver_name |-> PyStr(call_data["driver_name"]),
     phone_number |-> PyStr(call_data["phone_number"]),
     load_number |-> PyStr(call_data["load_number"]),
     call_status |-> PyStr("in_progress"),
     full_transcript |-> PyNone,
     structured_data |-> PyNone]

(* database.py 214-251: update_call_result.  "dberror" is the except clause, *)
(* "ok" is rowcount > 0, "norow" is rowcount = 0; only "ok" returns True.    *)
UpdateResult(call_id) ==
    IF dbState /= "up" THEN "dberror"
    ELSE IF call_id \in DOMAIN db THEN "ok" ELSE "norow"

----------------------------------------------------------------------------
(* The two finalizers *)

FinalizerColumns == {"call_outcome", "driver_status", "current_location", "eta",
                     "emergency_type", "emergency_location", "escalation_status"}

CallData(call_id) ==
    IF call_id \in DOMAIN active_calls THEN active_calls[call_id] ELSE EmptyDict

CompletedWith(call_data) ==
    <<"Call completed with ", Get(call_data, "driver_name", "driver"),
      " about load ", Get(call_data, "load_number", "N/A")>>

BaseUpdateData(transcript, structured_data) ==
    [call_status |-> PyStr("completed"),
     call_ended_at |-> <<"time.time()">>,
     full_transcript |-> transcript,
     structured_data |-> structured_data]

(* calls.py 125-128 *)
WebhookTranscript(call_data, transcript) ==
    IF ~Truthy(transcript) /\ Truthy(Get(call_data, "full_transcript", <<>>))
    THEN call_data["full_transcript"]
    ELSE transcript

(* the fallback summary whatever the call data holds *)
WebhookStructuredDataFallback(call_data) ==
    [call_outcome |-> PyStr("Call Completed"),
     confidence |-> PyNum(3),
     summary |-> PyFmt(CompletedWith(call_data)
                       \o <<" - no data extracted during conversation">>)]

(* calls.py 130-141 *)
WebhookStructuredData(call_data) ==
    LET structured_data == Get(call_data, "extracted_data", EmptyDict)
    IN  IF ~Truthy(structured_data)
        THEN [call_outcome |-> PyStr("Call Completed"),
              confidence |-> PyNum(3),
              summary |-> PyFmt(CompletedWith(call_data)
                                \o <<" - no data extracted during conversation">>)]
        ELSE Put(structured_data, "summary", PyFmt(CompletedWith(call_data)))

(* calls.py 141: structured_data is the dict held by the call data, so the   *)
(* summary is written into the stored extracted_data as well                 *)
WebhookCallDataAfter(call_data) ==
    IF Truthy(Get(call_data, "extracted_data", EmptyDict))
    THEN Put(call_data, "extracted_data", WebhookStructuredData(call_data))
    ELSE call_data

(* calls.py 145-156 *)
WebhookUpdateData(call_data, transcript) ==
    LET structured_data == WebhookStructuredData(call_data)
    IN  Update(BaseUpdateData(WebhookTranscript(call_data, transcript), structured_data),
               Restrict(structured_data, FinalizerColumns))

(* websocket.py 470-476 *)
DisconnectStructuredData(call_data) ==
    LET extracted_data == Get(call_data, "extracted_data", EmptyDict)
    IN  Update(extracted_data,
               [call_outcome |-> Get(extracted_data, "call_outcome", PyStr("Call Completed")),
                summary |-> PyFmt(CompletedWith(call_data))])

(* websocket.py 480-491 *)
DisconnectUpdateData(call_data) ==
    Update(BaseUpdateData(Get(call_data, "full_transcript", <<>>),
                          DisconnectStructuredData(call_data)),
           Restrict(Get(call_data, "extracted_data", EmptyDict), FinalizerColumns))

(* calls.py 164-167: what recording_webhook answers; websocket.py 495-506:   *)
(* finalize_call_on_disconnect prints the outcome and returns None           *)
FinalizerReturns(by, result) ==
    IF by = "notification"
    THEN [success |-> PyBool(result /= "raised")]
    ELSE [none |-> PyNone]

(* one run of a finalizer, as the log keeps it: the transcript its trigger    *)
(* supplied, the call data it read, the result and data of its write, what   *)
(* it returned                                                               *)
FinalizerRun(call_id, by, transcript, result, update_data) ==
    [call |-> call_id, by |-> by,
     returned |-> FinalizerReturns(by, result),
     found |-> call_id \in DOMAIN active_calls,
     sid |-> IF call_id \in DOMAIN active_calls THEN sessGen[call_id] ELSE 0,
     supplied |-> transcript, call_data |-> CallData(call_id),
     result |-> result, update_data |-> update_data]

(* the clean-up empties the store *)
WriteAndCleanUpClearsStore(call_id, by, transcript, update_data, call_data_after) ==
    /\ active_calls' = EmptyDict
    /\ db' = IF dbState /= "unconfigured" /\ UpdateResult(call_id) = "ok"
             THEN [db EXCEPT ![call_id] = Update(db[call_id], SetClauses(update_data))]
             ELSE db
    /\ finalizations' = Append(finalizations,
                               FinalizerRun(call_id, by, transcript,
                                            IF dbState = "unconfigured" THEN "raised"
                                            ELSE UpdateResult(call_id),
                                            update_data))

(* calls.py 158-162 and websocket.py 493-503: the write, then the clean-up.  *)
(* get_database_service() raises when the database settings are missing:     *)
(* the except clause ends the finalizer before the write and the clean-up.   *)
WriteAndCleanUp(call_id, by, transcript, update_data, call_data_after) ==
    IF dbState = "unconfigured"
    THEN /\ active_calls' = IF call_id \in DOMAIN active_calls
                            THEN [active_calls EXCEPT ![call_id] = call_data_after]
                            ELSE active_calls
         /\ db' = db
         /\ finalizations' = Append(finalizations,
                                    FinalizerRun(call_id, by, transcript, "raised", EmptyDict))
    ELSE /\ active_calls' = Remove(active_calls, call_id)
         /\ db' = IF UpdateResult(call_id) = "ok"
                  THEN [db EXCEPT ![call_id] = Update(db[call_id], SetClauses(update_data))]
                  ELSE db
         /\ finalizations' = Append(finalizations,
                                    FinalizerRun(call_id, by, transcript,
                                                 UpdateResult(call_id), update_data))

(* websocket.py 455-506 *)
finalize_call_on_disconnect(call_id) ==
    WriteAndCleanUp(call_id, "disconnect", <<>>, DisconnectUpdateData(CallData(call_id)),
                    CallData(call_id))

----------------------------------------------------------------------------
(* State *)

RECURSIVE SumOver(_, _)
SumOver(f, S) ==
    IF S = {} THEN 0
    ELSE LET x == CHOOSE y \in S : TRUE IN f[x] + SumOver(f, S \ {x})

NoLocals == [driver_name |-> "", load_number |-> "", response |-> EmptyDict]
NoTurn == [n |-> 0]
NoMessage == [n |-> 0, last |-> EmptyDict]

Init ==
    /\ dbState \in {"unconfigured", "down", "up"}
    /\ active_calls = EmptyDict
    /\ sessGen = [c \in CallIds |-> 0]
    /\ regd = {}
    /\ createTasks = {}
    /\ created = {}
    /\ db = EmptyDict
    /\ hpc = [c \in CallIds |-> "idle"]
    /\ hlocal = [c \in CallIds |-> NoLocals]
    /\ ping = [c \in CallIds |-> "none"]
    /\ outbound = [c \in CallIds |-> <<>>]
    /\ lastTurn = [c \in CallIds |-> NoTurn]
    /\ nTurns = [c \in CallIds |-> 0]
    /\ finalizations = <<>>
    /\ notified = [c \in CallIds |-> 0]
    /\ timeouts = [c \in CallIds |-> 0]
    /\ received = [c \in CallIds |-> NoMessage]
    /\ metadata = [c \in CallIds |-> EmptyDict]

----------------------------------------------------------------------------
(* calls.py 43-78: create_web_call.  The call id is new: Retell has just     *)
(* assigned it, so nothing has happened for it yet.                          *)
create_web_call(call_id, request) ==
    /\ call_id \notin regd
    /\ hpc[call_id] = "idle"
    /\ notified[call_id] = 0
    /\ LET call_metadata ==
               [driver_name |-> Get(request, "driver_name", "Driver"),
                phone_number |-> Get(request, "phone_number", ""),
                load_number |-> Get(request, "load_number", "Load")]
       IN  /\ metadata' = [metadata EXCEPT ![call_id] = call_metadata]
           /\ active_calls' = Put(active_calls, call_id, call_metadata)
    /\ sessGen' = [sessGen EXCEPT ![call_id] = @ + 1]
    /\ regd' = regd \cup {call_id}
    /\ createTasks' = createTasks \cup {call_id}
    /\ UNCHANGED <<dbState, created, db, hpc, hlocal, ping, outbound, lastTurn,
                   nTurns, finalizations, notified, timeouts, received>>

(* calls.py 25-41: trigger_phone_call.  The call is created at Retell with   *)
(* the names of the request as its metadata; nothing is stored under its id  *)
(* and no record is created.  The call id is new.                            *)
trigger_phone_call(call_id, call_request) ==
    /\ call_id \notin regd
    /\ metadata[call_id] = EmptyDict
    /\ hpc[call_id] = "idle"
    /\ notified[call_id] = 0
    /\ metadata' = [metadata EXCEPT ![call_id] =
                        [driver_name |-> call_request.driver_name,
                         load_number |-> call_request.load_number]]
    /\ UNCHANGED <<dbState, active_calls, sessGen, regd, createTasks, created, db,
                   hpc, hlocal, ping, outbound, lastTurn, nTurns, finalizations,
                   notified, timeouts, received>>

(* calls.py 193-213 with database.py 180-212: the task create_web_call       *)
(* scheduled runs; the metadata is the dict the task was given.  The task is *)
(* in the loop's ready queue before create_web_call has answered, and it     *)
(* never suspends, so it has run before the caller learns the call id: the   *)
(* connection and the webhook of a call come after it.                       *)
create_call_database_record(call_id, call_metadata) ==
    /\ call_id \in createTasks
    /\ createTasks' = createTasks \ {call_id}
    /\ IF dbState /= "unconfigured"
       THEN /\ created' = created \cup {call_id}
            /\ db' = IF dbState = "up"
                     THEN Put(db, call_id,
                              NewRow([call_id |-> call_id,
                                      driver_name |-> Get(call_metadata, "driver_name", "Driver"),
                                      phone_number |-> Get(call_metadata, "phone_number", ""),
                                      load_number |-> Get(call_metadata, "load_number", "Load")]))
                     ELSE db
       ELSE UNCHANGED <<created, db>>
    /\ UNCHANGED <<dbState, active_calls, sessGen, regd, hpc, hlocal, ping,
                   outbound, lastTurn, nTurns, finalizations, notified, timeouts, received, metadata>>

(* calls.py 114-167: recording_webhook *)
recording_webhook(call_id, transcript) ==
    /\ call_id \notin createTasks
    /\ SumOver(notified, CallIds) < MaxNotifications
    /\ notified' = [notified EXCEPT ![call_id] = @ + 1]
    /\ WriteAndCleanUp(call_id, "notification", transcript,
                       WebhookUpdateData(CallData(call_id), transcript),
                       WebhookCallDataAfter(CallData(call_id)))
    /\ UNCHANGED <<dbState, sessGen, regd, createTasks, created, hpc, hlocal,
                   ping, outbound, lastTurn, nTurns, timeouts, received, metadata>>

----------------------------------------------------------------------------
(* websocket.py 19-174: llm_websocket *)

(* the ping task is started when the connection is accepted *)
AcceptStartsPing(call_id) ==
    /\ hpc[call_id] = "idle"
    /\ call_id \notin createTasks
    /\ hpc' = [hpc EXCEPT ![call_id] = "greeting"]
    /\ ping' = [ping EXCEPT ![call_id] = "running"]
    /\ hlocal' = [hlocal EXCEPT ![call_id] =
                     [driver_name |-> Get(CallData(call_id), "driver_name", "Driver"),
                      load_number |-> Get(CallData(call_id), "load_number", "your load"),
                      response |-> EmptyDict]]
    /\ UNCHANGED <<dbState, active_calls, sessGen, regd, createTasks, created, db,
                   outbound, lastTurn, nTurns, finalizations, notified, timeouts,
                   received, metadata>>

(* 22-36: accept, read the variables of the call, build the greeting *)
Accept(call_id) ==
    /\ hpc[call_id] = "idle"
    /\ call_id \notin createTasks
    /\ hpc' = [hpc EXCEPT ![call_id] = "greeting"]
    /\ hlocal' = [hlocal EXCEPT ![call_id] =
                     [driver_name |-> Get(CallData(call_id), "driver_name", "Driver"),
                      load_number |-> Get(CallData(call_id), "load_number", "your load"),
                      response |-> EmptyDict]]
    /\ UNCHANGED <<dbState, active_calls, sessGen, regd, createTasks, created, db,
                   ping, outbound, lastTurn, nTurns, finalizations, notified, timeouts, received, metadata>>

FirstResponse(call_id) ==
    [response_id |-> 0,
     content |-> generate_first_message_simple(hlocal[call_id].driver_name,
                                               hlocal[call_id].load_number),
     content_complete |-> TRUE,
     end_call |-> FALSE]

(* 39-50: the greeting is sent and the ping task is started *)
SendGreeting(call_id) ==
    /\ hpc[call_id] = "greeting"
    /\ outbound' = [outbound EXCEPT ![call_id] = Append(@, FirstResponse(call_id))]
    /\ ping' = [ping EXCEPT ![call_id] = "running"]
    /\ hpc' = [hpc EXCEPT ![call_id] = "recv"]
    /\ UNCHANGED <<dbState, active_calls, sessGen, regd, createTasks, created, db,
                   hlocal, lastTurn, nTurns, finalizations, notified, timeouts, received, metadata>>

(* a failed greeting ends the handler without the finalizer *)
SendGreetingFailsUnfinalized(call_id) ==
    /\ hpc[call_id] = "greeting"
    /\ hpc' = [hpc EXCEPT ![call_id] = "closed"]
    /\ UNCHANGED <<dbState, active_calls, sessGen, regd, createTasks, created, db,
                   hlocal, ping, outbound, lastTurn, nTurns, finalizations, notified,
                   timeouts, received, metadata>>

(* 46, 160-174: sending the greeting raises; there is no ping task yet *)
SendGreetingFails(call_id) ==
    /\ hpc[call_id] = "greeting"
    /\ hpc' = [hpc EXCEPT ![call_id] = "closed"]
    /\ finalize_call_on_disconnect(call_id)
    /\ UNCHANGED <<dbState, sessGen, regd, createTasks, created, hlocal, ping,
                   outbound, lastTurn, nTurns, notified, timeouts, received, metadata>>

(* the stored transcript is kept when the one received is shorter *)
StoredAfterTurnKeepsLonger(call_id, extracted_data, transcript) ==
    LET entry == IF call_id \in DOMAIN active_calls
                 THEN active_calls[call_id]
                 ELSE [driver_name |-> hlocal[call_id].driver_name,
                       load_number |-> hlocal[call_id].load_number]
        stored == Get(entry, "full_transcript", <<>>)
        merged == Put(entry, "extracted_data",
                      MergeExtracted(Get(entry, "extracted_data", EmptyDict),
                                     extracted_data))
    IN  Put(merged, "full_transcript",
            IF Len(transcript) < Len(stored) THEN stored ELSE transcript)

(* the session is rebuilt from the variables of the handler on every turn *)
StoredAfterTurnRebuilds(call_id, extracted_data, transcript) ==
    LET entry == [driver_name |-> hlocal[call_id].driver_name,
                  load_number |-> hlocal[call_id].load_number]
        merged == Put(entry, "extracted_data",
                      MergeExtracted(Get(CallData(call_id), "extracted_data", EmptyDict),
                                     extracted_data))
    IN  Put(merged, "full_transcript", transcript)

(* the turn merges its data and leaves the transcript for later *)
StoredAfterTurnDefersTranscript(call_id, extracted_data, transcript) ==
    LET entry == IF call_id \in DOMAIN active_calls
                 THEN active_calls[call_id]
                 ELSE [driver_name |-> hlocal[call_id].driver_name,
                       load_number |-> hlocal[call_id].load_number]
    IN  Put(entry, "extracted_data",
            MergeExtracted(Get(entry, "extracted_data", EmptyDict), extracted_data))

(* 104-119: what the turn stores under the call id *)
StoredAfterTurn(call_id, extracted_data, transcript) ==
    LET entry == IF call_id \in DOMAIN active_calls
                 THEN active_calls[call_id]
                 ELSE [driver_name |-> hlocal[call_id].driver_name,
                       load_number |-> hlocal[call_id].load_number]
        withData == IF "extracted_data" \in DOMAIN entry
                    THEN entry
                    ELSE Put(entry, "extracted_data", EmptyDict)
        merged == Put(withData, "extracted_data",
                      MergeExtracted(withData["extracted_data"], extracted_data))
    IN  Put(merged, "full_transcript", transcript)

(* the flag read from the accumulated data instead of the data of the turn *)
ShouldEndAccumulated(call_id, extracted_data) ==
    Get(MergeExtracted(Get(CallData(call_id), "extracted_data", EmptyDict),
                       extracted_data),
        "should_end_call", PyBool(FALSE))[2]

(* 128: should_end *)
ShouldEnd(call_id, extracted_data) ==
    Get(extracted_data, "should_end_call", PyBool(FALSE))[2]

(* every response is numbered 1 *)
TurnResponseIdOne(call_id, response_id, response_content, extracted_data) ==
    [response_id |-> 1,
     content |-> response_content,
     content_complete |-> TRUE,
     end_call |-> Get(extracted_data, "should_end_call", PyBool(FALSE))[2]]

(* 136-141 *)
TurnResponse(call_id, response_id, response_content, extracted_data) ==
    [response_id |-> response_id,
     content |-> response_content,
     content_complete |-> TRUE,
     end_call |-> ShouldEnd(call_id, extracted_data)]

(* a message the handler has consumed, as the count keeps it *)
Consumed(call_id, request_data) ==
    [received EXCEPT ![call_id] = [n |-> @.n + 1, last |-> request_data]]

(* 65-72: the message is not a ping_pong and asks for a response *)
IsResponseRequired(request_data) ==
    /\ Get(request_data, "response_type", "") /= "ping_pong"
    /\ Get(request_data, "interaction_type", "") = "response_required"

(* 74-141: the turn of a response_required message that holds a user         *)
(* utterance: the policy is called, its data merged, the transcript stored,  *)
(* the response built.  The handler suspends next in send_text.              *)
ProcessTurn(call_id, request_data, reply) ==
    /\ SumOver(nTurns, CallIds) < MaxTurns
    /\ IsResponseRequired(request_data)
    /\ UserInput(Get(request_data, "transcript", <<>>)) /= <<>>
    /\ LET transcript == Get(request_data, "transcript", <<>>)
           user_input == UserInput(transcript)
           conversation_history == ConversationHistory(transcript, user_input)
           current_accumulated_data == Get(CallData(call_id), "extracted_data", EmptyDict)
           result == generate_llm_response_with_extraction(reply)
           response_id == Get(request_data, "response_id", 1)
       IN  /\ active_calls' = Put(active_calls, call_id,
                                  StoredAfterTurn(call_id, result.data, transcript))
           /\ hlocal' = [hlocal EXCEPT ![call_id].response =
                            TurnResponse(call_id, response_id, result.text, result.data)]
           /\ lastTurn' = [lastTurn EXCEPT ![call_id] =
                              [n |-> nTurns[call_id] + 1,
                               reply |-> reply,
                               user_input |-> user_input,
                               conversation_history |-> conversation_history,
                               accumulated_data |-> current_accumulated_data,
                               extracted_data |-> result.data]]
    /\ sessGen' = [sessGen EXCEPT ![call_id] =
                      IF call_id \in DOMAIN active_calls THEN @ ELSE @ + 1]
    /\ nTurns' = [nTurns EXCEPT ![call_id] = @ + 1]
    /\ received' = Consumed(call_id, request_data)
    /\ hpc' = [hpc EXCEPT ![call_id] = "respond"]
    /\ UNCHANGED <<dbState, regd, createTasks, created, db, ping, outbound,
                   finalizations, notified, timeouts, metadata>>

(* 56-141: a response_required message with a user utterance is received    *)
(* and its turn processed                                                    *)
ReceiveTurn(call_id, request_data, reply) ==
    /\ hpc[call_id] = "recv"
    /\ ProcessTurn(call_id, request_data, reply)

(* a message that asks for no response is answered all the same *)
ReceiveDiscardedAnswers(call_id, request_data) ==
    /\ hpc[call_id] = "recv"
    /\ received[call_id].n - nTurns[call_id] < MaxDiscarded
    /\ ~(/\ IsResponseRequired(request_data)
         /\ UserInput(Get(request_data, "transcript", <<>>)) /= <<>>)
    /\ received' = Consumed(call_id, request_data)
    /\ outbound' = [outbound EXCEPT ![call_id] =
                        Append(@, TurnResponse(call_id, Get(request_data, "response_id", 1),
                                               FallbackText, EmptyDict))]
    /\ UNCHANGED <<dbState, active_calls, sessGen, regd, createTasks, created, db,
                   hpc, hlocal, ping, lastTurn, nTurns, finalizations, notified,
                   timeouts, metadata>>

(* 65-72, 82, 146-148: a ping_pong, a response_required without a user       *)
(* utterance, an update_only or a message of another kind is received: the   *)
(* loop receives again                                                       *)
ReceiveDiscarded(call_id, request_data) ==
    /\ hpc[call_id] = "recv"
    /\ received[call_id].n - nTurns[call_id] < MaxDiscarded
    /\ ~(/\ IsResponseRequired(request_data)
         /\ UserInput(Get(request_data, "transcript", <<>>)) /= <<>>)
    /\ received' = Consumed(call_id, request_data)
    /\ UNCHANGED <<dbState, active_calls, sessGen, regd, createTasks, created, db,
                   hpc, hlocal, ping, outbound, lastTurn, nTurns, finalizations,
                   notified, timeouts, metadata>>

(* the message of the n-th turn of a call: Retell numbers its requests and   *)
(* resends the whole history                                                 *)
TurnRequest(n) ==
    [interaction_type |-> "response_required", response_id |-> n,
     transcript |-> Transcript(n)]

(* the message that comes next on a connection *)
NextRequest(call_id) == TurnRequest(nTurns[call_id] + 1)

(* 143-144: the response is sent; the loop receives again *)
SendResponse(call_id) ==
    /\ hpc[call_id] = "respond"
    /\ outbound' = [outbound EXCEPT ![call_id] = Append(@, hlocal[call_id].response)]
    /\ hlocal' = [hlocal EXCEPT ![call_id].response = EmptyDict]
    /\ hpc' = [hpc EXCEPT ![call_id] = "recv"]
    /\ UNCHANGED <<dbState, active_calls, sessGen, regd, createTasks, created, db,
                   ping, lastTurn, nTurns, finalizations, notified, timeouts, received, metadata>>

(* the timeout is taken for a disconnect: the loop is left *)
ReceiveTimeoutFatal(call_id) ==
    /\ hpc[call_id] = "recv"
    /\ timeouts[call_id] < MaxTimeouts
    /\ timeouts' = [timeouts EXCEPT ![call_id] = @ + 1]
    /\ hpc' = [hpc EXCEPT ![call_id] = "await_ping"]
    /\ ping' = [ping EXCEPT ![call_id] = IF @ = "done" THEN @ ELSE "cancelling"]
    /\ UNCHANGED <<dbState, active_calls, sessGen, regd, createTasks, created, db,
                   hlocal, outbound, lastTurn, nTurns, finalizations, notified,
                   received, metadata>>

(* 56, 150-152: wait_for gives up after 30 seconds; the timeout is logged    *)
(* and the loop receives again.  The count is kept for the properties.       *)
ReceiveTimeout(call_id) ==
    /\ hpc[call_id] = "recv"
    /\ timeouts[call_id] < MaxTimeouts
    /\ timeouts' = [timeouts EXCEPT ![call_id] = @ + 1]
    /\ UNCHANGED <<dbState, active_calls, sessGen, regd, createTasks, created, db,
                   hpc, hlocal, ping, outbound, lastTurn, nTurns, finalizations,
                   notified, received, metadata>>

(* the loop is left and the ping task is awaited without being cancelled *)
LeaveLoopNoCancel(call_id) ==
    /\ hpc[call_id] \in {"recv", "respond"}
    /\ hlocal' = [hlocal EXCEPT ![call_id].response = EmptyDict]
    /\ hpc' = [hpc EXCEPT ![call_id] = "await_ping"]
    /\ UNCHANGED <<dbState, active_calls, sessGen, regd, createTasks, created, db,
                   ping, outbound, lastTurn, nTurns, finalizations, notified,
                   timeouts, received, metadata>>

(* 153-170: the loop is left (disconnect, or any other exception); finally   *)
(* cancels the ping task and awaits it.  A task that is done is awaited      *)
(* without suspending, so the finalizer runs in the same step.               *)
LeaveLoop(call_id) ==
    /\ hpc[call_id] \in {"recv", "respond"}
    /\ hlocal' = [hlocal EXCEPT ![call_id].response = EmptyDict]
    /\ IF ping[call_id] = "done"
       THEN /\ hpc' = [hpc EXCEPT ![call_id] = "closed"]
            /\ finalize_call_on_disconnect(call_id)
            /\ UNCHANGED ping
       ELSE /\ hpc' = [hpc EXCEPT ![call_id] = "await_ping"]
            /\ ping' = [ping EXCEPT ![call_id] = "cancelling"]
            /\ UNCHANGED <<active_calls, db, finalizations>>
    /\ UNCHANGED <<dbState, sessGen, regd, createTasks, created, outbound,
                   lastTurn, nTurns, notified, timeouts, received, metadata>>

(* 172-174: the ping task has ended; the finalizer runs *)
FinalizeOnExit(call_id) ==
    /\ hpc[call_id] = "await_ping"
    /\ ping[call_id] = "done"
    /\ hpc' = [hpc EXCEPT ![call_id] = "closed"]
    /\ finalize_call_on_disconnect(call_id)
    /\ UNCHANGED <<dbState, sessGen, regd, createTasks, created, hlocal, ping,
                   outbound, lastTurn, nTurns, notified, timeouts, received, metadata>>

----------------------------------------------------------------------------
(* websocket.py 176-198: send_ping_pong *)

PingPong == [response_type |-> "ping_pong", timestamp |-> <<"time.time()">>]

NumPings(call_id) ==
    Len(SelectSeq(outbound[call_id], LAMBDA m : "response_type" \in DOMAIN m))

(* the failure of the send is raised in the handler, which ends *)
PingSendFailsEscalates(call_id) ==
    /\ ping[call_id] = "running"
    /\ ping' = [ping EXCEPT ![call_id] = "done"]
    /\ hpc' = [hpc EXCEPT ![call_id] = "closed"]
    /\ UNCHANGED <<dbState, active_calls, sessGen, regd, createTasks, created, db,
                   hlocal, outbound, lastTurn, nTurns, finalizations, notified,
                   timeouts, received, metadata>>

(* 181-188 *)
PingSend(call_id) ==
    /\ ping[call_id] = "running"
    /\ NumPings(call_id) < MaxPings
    /\ outbound' = [outbound EXCEPT ![call_id] = Append(@, PingPong)]
    /\ UNCHANGED <<dbState, active_calls, sessGen, regd, createTasks, created, db,
                   hpc, hlocal, ping, lastTurn, nTurns, finalizations, notified, timeouts, received, metadata>>

(* 189-194: the send raises, the task ends *)
PingSendFails(call_id) ==
    /\ ping[call_id] = "running"
    /\ ping' = [ping EXCEPT ![call_id] = "done"]
    /\ UNCHANGED <<dbState, active_calls, sessGen, regd, createTasks, created, db,
                   hpc, hlocal, outbound, lastTurn, nTurns, finalizations, notified, timeouts, received, metadata>>

(* 195-196: the cancellation reaches the task *)
PingCancelled(call_id) ==
    /\ ping[call_id] = "cancelling"
    /\ ping' = [ping EXCEPT ![call_id] = "done"]
    /\ UNCHANGED <<dbState, active_calls, sessGen, regd, createTasks, created, db,
                   hpc, hlocal, outbound, lastTurn, nTurns, finalizations, notified, timeouts, received, metadata>>

----------------------------------------------------------------------------
Step(call_id) ==
        \/ \E request \in RegRequests : create_web_call(call_id, request)
        \/ create_call_database_record(call_id, CallData(call_id))
        \/ \E transcript \in WebhookTranscripts :
               recording_webhook(call_id, transcript)
        \/ Accept(call_id)
        \/ SendGreeting(call_id)
        \/ SendGreetingFails(call_id)
        \/ \E reply \in LLMReplies :
               ReceiveTurn(call_id, NextRequest(call_id), reply)
        \/ SendResponse(call_id)
        \/ LeaveLoop(call_id)
        \/ FinalizeOnExit(call_id)
        \/ PingSend(call_id)
        \/ PingSendFails(call_id)
        \/ PingCancelled(call_id)

(* the calls that take place *)
Callers == {"c1"}

Next == \E call_id \in Callers : Step(call_id)

Spec == Init /\ [][Next]_vars

(* The conversation of one connection alone, with every kind of reply the    *)
(* chat completion can give.                                                 *)
PolicyStep(call_id) ==
    \/ Accept(call_id)
    \/ SendGreeting(call_id)
    \/ \E reply \in AllLLMReplies :
           ReceiveTurn(call_id, NextRequest(call_id), reply)
    \/ SendResponse(call_id)

NextPolicy == \E call_id \in Callers : PolicyStep(call_id)

SpecPolicy == Init /\ [][NextPolicy]_vars

(* The transport side of one connection: registration, the greeting, turns   *)
(* with the routine reply, receive timeouts, the ping task, the ways out.    *)
TransportStep(call_id) ==
    \/ \E request \in RegRequests : create_web_call(call_id, request)
    \/ create_call_database_record(call_id, CallData(call_id))
    \/ Accept(call_id)
    \/ SendGreeting(call_id)
    \/ SendGreetingFails(call_id)
    \/ ReceiveTurn(call_id, NextRequest(call_id), LLMReply(FALSE, <<TC_routine>>))
    \/ SendResponse(call_id)
    \/ ReceiveTimeout(call_id)
    \/ LeaveLoop(call_id)
    \/ FinalizeOnExit(call_id)
    \/ PingSend(call_id)
    \/ PingSendFails(call_id)
    \/ PingCancelled(call_id)

NextTransport == \E call_id \in Callers : TransportStep(call_id)

SpecTransport == Init /\ [][NextTransport]_vars

(* The event loop runs a task that is ready: the cancelled ping task ends,   *)
(* and the handler that awaits it goes on to the finalizer.                  *)
SpecTransportLive ==
    /\ SpecTransport
    /\ \A call_id \in Callers :
           /\ WF_vars(PingCancelled(call_id))
           /\ WF_vars(FinalizeOnExit(call_id))

(* The messages of one connection: every kind of message, transcripts of     *)
(* every shape, the routine reply.                                           *)
MessagesStep(call_id) ==
    \/ Accept(call_id)
    \/ SendGreeting(call_id)
    \/ \E request_data \in InboundMessages :
           ReceiveTurn(call_id, request_data, LLMReply(FALSE, <<TC_routine>>))
    \/ \E request_data \in InboundMessages : ReceiveDiscarded(call_id, request_data)
    \/ SendResponse(call_id)

NextMessages == \E call_id \in Callers : MessagesStep(call_id)

SpecMessages == Init /\ [][NextMessages]_vars

(* The session store over the life of one call: the call is registered by   *)
(* create_web_call, triggered as a phone call, or only connects; turns with  *)
(* the routine reply; the recording webhook and the disconnect.              *)
StoreStep(call_id) ==
    \/ \E request \in RegRequests : create_web_call(call_id, request)
    \/ \E call_request \in PhoneRequests : trigger_phone_call(call_id, call_request)
    \/ create_call_database_record(call_id, CallData(call_id))
    \/ \E transcript \in WebhookTranscripts :
           recording_webhook(call_id, transcript)
    \/ Accept(call_id)
    \/ SendGreeting(call_id)
    \/ ReceiveTurn(call_id, NextRequest(call_id), LLMReply(FALSE, <<TC_routine>>))
    \/ SendResponse(call_id)
    \/ LeaveLoop(call_id)
    \/ PingCancelled(call_id)
    \/ FinalizeOnExit(call_id)

NextStore == \E call_id \in Callers : StoreStep(call_id)

SpecStore == Init /\ [][NextStore]_vars

(* the timeouts and the pings of the two connections are counted together *)
SessionsTimeout(call_id) ==
    /\ SumOver(timeouts, CallIds) < MaxTimeouts - 1
    /\ ReceiveTimeout(call_id)

SessionsPingSend(call_id) ==
    /\ \A c \in CallIds : NumPings(c) = 0
    /\ PingSend(call_id)

(* Two calls at a time, each registered by create_web_call, each with its    *)
(* connection, its ping task and its record.                                 *)
SessionsStep(call_id) ==
    \/ \E request \in RegRequests : create_web_call(call_id, request)
    \/ create_call_database_record(call_id, CallData(call_id))
    \/ recording_webhook(call_id, T_authoritative)
    \/ Accept(call_id)
    \/ SendGreeting(call_id)
    \/ ReceiveTurn(call_id, NextRequest(call_id), LLMReply(FALSE, <<TC_routine>>))
    \/ SendResponse(call_id)
    \/ SessionsTimeout(call_id)
    \/ SessionsPingSend(call_id)
    \/ LeaveLoop(call_id)
    \/ PingCancelled(call_id)
    \/ FinalizeOnExit(call_id)

NextSessions == \E call_id \in CallIds : SessionsStep(call_id)

(* the process starts with the database configured and answering *)
InitUp == Init /\ dbState = "up"

SpecSessions == InitUp /\ [][NextSessions]_vars

(* The event loop with two connections.  generate_llm_response_with_         *)
(* extraction is a coroutine that never awaits: chat.completions.create of   *)
(* the synchronous openai.OpenAI client (websocket.py 215, 402-410) returns  *)
(* when the completion has arrived or after its 10 seconds, and the thread   *)
(* of the loop is in it until then.  No other task of the process runs       *)
(* meanwhile.                                                                *)
LoopFree == \A c \in CallIds : hpc[c] /= "policy"

(* the handler reads the next message while a response is still to be sent *)
PolicyCallStartsEarly(call_id, request_data) ==
    /\ hpc[call_id] \in {"recv", "respond"}
    /\ SumOver(nTurns, CallIds) < MaxTurns
    /\ IsResponseRequired(request_data)
    /\ UserInput(Get(request_data, "transcript", <<>>)) /= <<>>
    /\ hpc' = [hpc EXCEPT ![call_id] = "policy"]
    /\ UNCHANGED <<dbState, active_calls, sessGen, regd, createTasks, created, db,
                   hlocal, ping, outbound, lastTurn, nTurns, finalizations, notified,
                   timeouts, received, metadata>>

(* 56-102, 402: a response_required message with a user utterance has been   *)
(* received and the request of the chat completion is out                    *)
PolicyCallStarts(call_id, request_data) ==
    /\ hpc[call_id] = "recv"
    /\ SumOver(nTurns, CallIds) < MaxTurns
    /\ IsResponseRequired(request_data)
    /\ UserInput(Get(request_data, "transcript", <<>>)) /= <<>>
    /\ hpc' = [hpc EXCEPT ![call_id] = "policy"]
    /\ UNCHANGED <<dbState, active_calls, sessGen, regd, createTasks, created, db,
                   hlocal, ping, outbound, lastTurn, nTurns, finalizations, notified,
                   timeouts, received, metadata>>

(* 402-141: the chat completion returns or raises; the rest of the turn      *)
PolicyCallReturns(call_id, reply) ==
    /\ hpc[call_id] = "policy"
    /\ ProcessTurn(call_id, NextRequest(call_id), reply)

(* the steps of a handler the loop runs when its thread is free *)
LoopHandlerStep(call_id) ==
    /\ LoopFree
    /\ \/ Accept(call_id)
       \/ SendGreeting(call_id)
       \/ PolicyCallStarts(call_id, NextRequest(call_id))
       \/ SendResponse(call_id)

(* the ping task sends when the loop runs it *)
LoopPingSend(call_id) == LoopFree /\ PingSend(call_id)

LoopStep(call_id) ==
    \/ LoopHandlerStep(call_id)
    \/ LoopPingSend(call_id)
    \/ \E reply \in LLMReplies : PolicyCallReturns(call_id, reply)

NextLoop == \E call_id \in CallIds : LoopStep(call_id)

SpecLoop == Init /\ [][NextLoop]_vars

----------------------------------------------------------------------------
(* Properties *)

Runs(call_id) == {i \in 1..Len(finalizations) : finalizations[i].call = call_id}

(* the runs that issued update_call_result *)
Writes(call_id) == {i \in Runs(call_id) : finalizations[i].result /= "raised"}

(* the runs that deleted the entry of the call *)
Removals(call_id) ==
    {i \in Runs(call_id) : finalizations[i].found /\ finalizations[i].result /= "raised"}

IsTurnResponse(message) == "response_id" \in DOMAIN message

NonEmpty(value) == value /= PyNone /\ value /= PyStr("")

(* the tool the reply selects: the first tool call of the message *)
Selected(reply) ==
    IF reply.raised \/ reply.tool_calls = <<>> \/ ~reply.tool_calls[1].valid
    THEN "none"
    ELSE reply.tool_calls[1].name

(* C1: once the notification and the disconnect have both run for a          *)
(* registered call, exactly one update was issued for the call, by the       *)
(* trigger that found the session.                                           *)
C1_ExactlyOneWrite ==
    \A c \in CallIds :
        (c \in regd /\ notified[c] > 0 /\ hpc[c] = "closed" /\ dbState /= "unconfigured")
        => /\ Cardinality(Writes(c)) = 1
           /\ \A i \in Writes(c) : finalizations[i].found

(* C2: a finalizer that finds no session for the call id issues no update.   *)
C2_NoWriteWhenAbsent ==
    \A i \in 1..Len(finalizations) :
        ~finalizations[i].found => finalizations[i].result = "raised"

(* C3: a session is found in the store by at most one finalizer run; every   *)
(* other run for the call finds it absent.                                   *)
C3_OneTakerPerSession ==
    \A i, j \in 1..Len(finalizations) :
        (/\ i /= j
         /\ finalizations[i].call = finalizations[j].call
         /\ finalizations[i].found
         /\ finalizations[j].found)
        => finalizations[i].sid /= finalizations[j].sid

(* C4: with the database up, a finalizer run that found a session is         *)
(* followed (at the latest by its own write: nothing retries) by a           *)
(* successful update for that session.                                       *)
C4_PersistedAfterTrigger ==
    \A i \in 1..Len(finalizations) :
        (finalizations[i].found /\ dbState = "up")
        => \E j \in Runs(finalizations[i].call) :
               /\ finalizations[j].sid = finalizations[i].sid
               /\ finalizations[j].result = "ok"

(* C5: when a finalizer run that found the session ends, the session is no   *)
(* longer in the store, however the run ended.                               *)
C5_AbsentAfterFinalize ==
    [][Len(finalizations') > Len(finalizations)
       => LET run == finalizations'[Len(finalizations')]
          IN  run.found => run.call \notin DOMAIN active_calls']_vars

(* C6: once a finalizer has removed the session of a call id, the store      *)
(* holds no entry for that call id again.                                    *)
C6_NoResurrection ==
    \A c \in CallIds : Removals(c) /= {} => c \notin DOMAIN active_calls

(* C7: while a session stays in the store its extracted_data keeps every     *)
(* key, and a key holding a non-empty value keeps a non-empty value.         *)
C7_MergeKeepsPopulated ==
    [][\A c \in CallIds :
           (/\ c \in DOMAIN active_calls
            /\ c \in DOMAIN active_calls'
            /\ sessGen'[c] = sessGen[c]
            /\ "extracted_data" \in DOMAIN active_calls[c])
           => /\ "extracted_data" \in DOMAIN active_calls'[c]
              /\ \A k \in DOMAIN active_calls[c]["extracted_data"] :
                     /\ k \in DOMAIN active_calls'[c]["extracted_data"]
                     /\ NonEmpty(active_calls[c]["extracted_data"][k])
                        => NonEmpty(active_calls'[c]["extracted_data"][k])]_vars

(* a turn has merged an empty current_location into a session that holds     *)
(* one, and the session still holds it                                       *)
C7_Witness ==
    \E c \in DOMAIN active_calls :
        /\ lastTurn[c].n > 0
        /\ hpc[c] = "respond"
        /\ Get(lastTurn[c].extracted_data, "current_location", PyNone) = PyStr("")
        /\ Get(lastTurn[c].extracted_data, "eta", PyStr("x")) = PyNone
        /\ Get(lastTurn[c].accumulated_data, "current_location", PyNone) = PyStr("mile 12")
        /\ active_calls[c]["extracted_data"]["current_location"] = PyStr("mile 12")
        /\ "eta" \notin DOMAIN active_calls[c]["extracted_data"]

(* C8: after a turn response with end_call=true was sent on a connection,    *)
(* no further turn is processed on it.                                       *)
C8_NoTurnAfterEndCall ==
    \A c \in CallIds :
        \A i \in 1..Len(outbound[c]) :
            (IsTurnResponse(outbound[c][i]) /\ outbound[c][i].end_call)
            => /\ hpc[c] /= "respond"
               /\ \A j \in (i + 1)..Len(outbound[c]) : ~IsTurnResponse(outbound[c][j])

(* C9: the response a turn is about to send has end_call=true exactly when   *)
(* the reply of that turn selected the end_call tool.                        *)
C9_EndCallIffSelected ==
    \A c \in CallIds :
        hpc[c] = "respond"
        => hlocal[c].response.end_call = (Selected(lastTurn[c].reply) = "end_call")

(* a turn answers end_call=false while the session holds should_end_call     *)
(* = true from an earlier turn                                               *)
C9_Witness ==
    \E c \in DOMAIN active_calls :
        /\ hpc[c] = "respond"
        /\ ~hlocal[c].response.end_call
        /\ Get(active_calls[c]["extracted_data"], "should_end_call", PyNone) = PyBool(TRUE)

(* C10: the data of a reply that selected a tool carries is_emergency =      *)
(* (the tool is handle_emergency_protocol) and should_end_call = (the tool   *)
(* is end_call), never both true.                                            *)
C10_DerivedFlags ==
    \A c \in CallIds :
        (lastTurn[c].n > 0 /\ Selected(lastTurn[c].reply) /= "none")
        => LET data == lastTurn[c].extracted_data
               tool == Selected(lastTurn[c].reply)
           IN  /\ data["is_emergency"] = PyBool(tool = "handle_emergency_protocol")
               /\ data["should_end_call"] = PyBool(tool = "end_call")
               /\ ~(data["is_emergency"] = PyBool(TRUE)
                    /\ data["should_end_call"] = PyBool(TRUE))

(* a reply with two tool calls, and a reply whose arguments name the flags   *)
(* themselves, have been turned into data                                    *)
C10_Witness ==
    \E c \in CallIds :
        /\ lastTurn[c].n = 2
        /\ Len(lastTurn[c].reply.tool_calls) = 2
        /\ lastTurn[c].extracted_data["is_emergency"] = PyBool(TRUE)
        /\ Get(lastTurn[c].accumulated_data, "tool_used", PyNone)
               = PyStr("handle_routine_checkin")
        /\ Get(lastTurn[c].accumulated_data, "should_end_call", PyNone) = PyBool(FALSE)

(* C11: a reply that selected no tool (the completion raised, its arguments  *)
(* are malformed, or the message has no tool call) is answered with the      *)
(* fallback text and data holding is_emergency=false, confidence=0.1 and an  *)
(* error.                                                                    *)
C11_FailureFields ==
    \A c \in CallIds :
        (hpc[c] = "respond" /\ Selected(lastTurn[c].reply) = "none")
        => LET data == lastTurn[c].extracted_data
           IN  /\ hlocal[c].response.content = FallbackText
               /\ Get(data, "is_emergency", PyNone) = PyBool(FALSE)
               /\ Get(data, "confidence", PyNone) = PyNum(1)
               /\ "error" \in DOMAIN data

(* C12: the turn of a reply that selected no tool ends with a response for   *)
(* that turn, end_call=false, pending, the session in the store and no       *)
(* finalizer run; the response is then sent and the handler receives again   *)
(* with the session still in the store.                                      *)
C12_FailureKeepsSession ==
    [][\A c \in CallIds :
           /\ (/\ hpc[c] = "recv"
               /\ nTurns'[c] = nTurns[c] + 1
               /\ Selected(lastTurn'[c].reply) = "none")
              => /\ hpc'[c] = "respond"
                 /\ hlocal'[c].response.response_id = lastTurn'[c].n
                 /\ hlocal'[c].response.end_call = FALSE
                 /\ c \in DOMAIN active_calls'
                 /\ finalizations' = finalizations
           /\ (/\ hpc[c] = "respond"
               /\ Selected(lastTurn[c].reply) = "none"
               /\ c \in DOMAIN active_calls)
              => /\ outbound'[c] = Append(outbound[c], hlocal[c].response)
                 /\ hpc'[c] = "recv"
                 /\ c \in DOMAIN active_calls'
                 /\ finalizations' = finalizations]_vars

(* after a turn that ended the call, a turn whose completion failed has been *)
(* answered and a third message is awaited                                   *)
C12_Witness ==
    \E c \in DOMAIN active_calls :
        /\ hpc[c] = "recv"
        /\ lastTurn[c].n = 2
        /\ Selected(lastTurn[c].reply) = "none"
        /\ Get(lastTurn[c].accumulated_data, "should_end_call", PyNone) = PyBool(TRUE)
        /\ Len(outbound[c]) = 3
        /\ ~outbound[c][3].end_call

(* the greeting the caller is to hear *)
Greeting(driver_name, load_number) ==
    PyFmt(<<"Hi ", driver_name, ", this is Dispatch calling about load ",
            load_number, ". Can you give me an update on your status?">>)

C14_TimeoutNotFatal ==
    [][\A c \in CallIds :
           timeouts'[c] > timeouts[c]
           => /\ hpc[c] = "recv"
              /\ hpc'[c] = "recv"
              /\ active_calls' = active_calls
              /\ ping'[c] = ping[c]
              /\ finalizations' = finalizations
              /\ outbound' = outbound]_vars

(* two timeouts in a row after a turn: the handler waits, the session is in  *)
(* the store, the ping task runs, nothing was finalized                      *)
C14_Witness ==
    \E c \in DOMAIN active_calls :
        /\ timeouts[c] >= 2
        /\ nTurns[c] > 0
        /\ hpc[c] = "recv"
        /\ ping[c] = "running"
        /\ finalizations = <<>>

(* the finalizer runs the handler of a connection has made *)
DisconnectRuns(call_id) ==
    {i \in Runs(call_id) : finalizations[i].by = "disconnect"}

(* C15: once the handler of an accepted connection has left its loop         *)
(* (disconnect or error while receiving, error while sending a response,     *)
(* greeting that could not be sent) it processes no turn and sends nothing   *)
(* more, it calls the disconnect finalizer once when it ends and not before, *)
(* and it does end.                                                          *)
C15_FinalizeOnceOnExit ==
    /\ [][\A c \in CallIds :
              /\ hpc[c] \in {"await_ping", "closed"}
                 => /\ hpc'[c] \in {"await_ping", "closed"}
                    /\ nTurns'[c] = nTurns[c]
                    /\ lastTurn'[c] = lastTurn[c]
                    /\ outbound'[c] = outbound[c]
              /\ (hpc[c] /= "closed" /\ hpc'[c] = "closed")
                 => /\ hpc[c] /= "idle"
                    /\ Len(finalizations') = Len(finalizations) + 1
                    /\ finalizations'[Len(finalizations')].call = c
                    /\ finalizations'[Len(finalizations')].by = "disconnect"
              /\ hpc'[c] = "closed" => Cardinality(DisconnectRuns(c)') = 1
              /\ hpc'[c] /= "closed" => DisconnectRuns(c)' = {}]_vars
    /\ \A c \in CallIds :
           (hpc[c] = "await_ping") ~> (hpc[c] = "closed")

(* a handler ended after a response could not be sent, one that ended on a   *)
(* failed greeting would have no turn                                        *)
C15_Witness ==
    \E c \in CallIds :
        /\ hpc[c] = "closed"
        /\ nTurns[c] > 0
        /\ Len(SelectSeq(outbound[c], IsTurnResponse)) = nTurns[c]
        /\ Cardinality(DisconnectRuns(c)) = 1

(* C16: when the handler has left its loop the ping task is cancelled or     *)
(* has ended, no ping_pong is sent from then on, and a handler that waits    *)
(* for the cancelled task does reach the finalizer.                          *)
C16_PingCancelledOnExit ==
    /\ [][\A c \in CallIds :
              /\ hpc'[c] \in {"await_ping", "closed"}
                 => /\ ping'[c] \in {"none", "cancelling", "done"}
                    /\ ping'[c] = "none" => outbound'[c] = <<>>
              /\ hpc[c] \in {"await_ping", "closed"} => NumPings(c)' = NumPings(c)
              /\ (hpc[c] \in {"recv", "respond"} /\ hpc'[c] = "closed")
                 => ping[c] = "done"]_vars
    /\ \A c \in CallIds :
           (ping[c] = "cancelling")
           ~> (ping[c] = "done" /\ hpc[c] = "closed" /\ DisconnectRuns(c) /= {})

(* the handler has finalized after cancelling a ping task that had sent a    *)
(* ping_pong                                                                 *)
C16_Witness ==
    \E c \in CallIds :
        /\ hpc[c] = "closed"
        /\ ping[c] = "done"
        /\ NumPings(c) > 0
        /\ IsTurnResponse(outbound[c][Len(outbound[c])])
        /\ DisconnectRuns(c) /= {}

(* the finalizer runs a recording webhook has made with the session found *)
NotificationTakes(call_id) ==
    {i \in Runs(call_id) : finalizations[i].by = "notification" /\ finalizations[i].found}

(* C17: once the notification has finalized the session of a call, no        *)
(* ping_pong is sent on the connection of that call.                         *)
C17_NoPingAfterNotification ==
    [][\A c \in CallIds :
           NotificationTakes(c) /= {} => NumPings(c)' = NumPings(c)]_vars

(* C18: a ping_pong that cannot be sent ends the ping task and nothing else: *)
(* the handler, the store, the messages sent and the finalizer log stay as   *)
(* they are; the ended task sends nothing more; the handler goes on with     *)
(* its turns, and when it leaves its loop it runs the finalizer.             *)
C18_PingFailureSilent ==
    [][\A c \in CallIds :
           /\ (ping[c] = "running" /\ ping'[c] = "done")
              => /\ hpc' = hpc
                 /\ hlocal' = hlocal
                 /\ outbound' = outbound
                 /\ active_calls' = active_calls
                 /\ finalizations' = finalizations
           /\ ping[c] = "done"
              => /\ ping'[c] = "done"
                 /\ NumPings(c)' = NumPings(c)
           /\ (ping[c] = "done" /\ hpc[c] \in {"recv", "respond"})
              => /\ hpc'[c] \in {"recv", "respond", "closed"}
                 /\ hpc'[c] = "closed"
                    => /\ Len(finalizations') = Len(finalizations) + 1
                       /\ finalizations'[Len(finalizations')].call = c
                       /\ finalizations'[Len(finalizations')].by = "disconnect"]_vars

(* the ping task has ended on a failed send without having sent anything,    *)
(* and the handler, two turns answered, waits for the next message           *)
C18_Witness ==
    \E c \in DOMAIN active_calls :
        /\ ping[c] = "done"
        /\ hpc[c] = "recv"
        /\ NumPings(c) = 0
        /\ nTurns[c] = 2
        /\ Len(outbound[c]) = 3
        /\ finalizations = <<>>

(* the runs that issued update_call_result with the session found *)
FoundWrites ==
    {i \in 1..Len(finalizations) :
         finalizations[i].found /\ finalizations[i].result /= "raised"}

(* C19: the transcript a finalizer writes is the one its trigger supplied    *)
(* only when the transcript of the session is empty; when the session has a  *)
(* transcript, that one is written, whatever the trigger supplied.           *)
C19_TranscriptChoice ==
    \A i \in FoundWrites :
        LET run == finalizations[i]
            own == Get(run.call_data, "full_transcript", <<>>)
        IN  run.update_data["full_transcript"] = IF own /= <<>> THEN own ELSE run.supplied

(* C20: the structured_data a finalizer writes holds every key of the        *)
(* extracted_data of the session with the value accumulated there when       *)
(* that mapping is not empty, and is the fallback summary (nothing but       *)
(* call_outcome "Call Completed", a confidence and a summary) when it is     *)
(* empty; a write that succeeds stores exactly that in the row.              *)
C20_RecordHoldsExtracted ==
    /\ \A i \in FoundWrites :
           LET run == finalizations[i]
               extracted_data == Get(run.call_data, "extracted_data", EmptyDict)
               structured_data == run.update_data["structured_data"]
           IN  IF DOMAIN extracted_data /= {}
               THEN /\ \A k \in DOMAIN extracted_data :
                           /\ k \in DOMAIN structured_data
                           /\ structured_data[k] = extracted_data[k]
                    /\ \A k \in DOMAIN extracted_data \cap FinalizerColumns :
                           /\ k \in DOMAIN run.update_data
                           /\ run.update_data[k] = extracted_data[k]
               ELSE /\ DOMAIN structured_data \subseteq {"call_outcome", "confidence", "summary"}
                    /\ structured_data["call_outcome"] = PyStr("Call Completed")
                    /\ "summary" \in DOMAIN structured_data
    /\ \A c \in DOMAIN db :
           \A i \in FoundWrites :
               (/\ finalizations[i].call = c
                /\ finalizations[i].result = "ok"
                /\ \A j \in Writes(c) : j <= i)
               => db[c]["structured_data"]
                      = <<"json", finalizations[i].update_data["structured_data"]>>

(* a notification has written the data of an emergency turn, and the row     *)
(* holds it                                                                  *)
C20_Witness ==
    \E i \in FoundWrites :
        /\ finalizations[i].by = "notification"
        /\ finalizations[i].result = "ok"
        /\ Get(Get(finalizations[i].call_data, "extracted_data", EmptyDict),
               "emergency_type", PyNone) = PyStr("Accident")
        /\ db[finalizations[i].call]["emergency_type"] = PyStr("Accident")
        /\ db[finalizations[i].call]["structured_data"][2]["emergency_type"] = PyStr("Accident")

(* C21: a notification whose write failed (the database raised, or no row    *)
(* was updated) does not answer success, and no finalizer run writes for the *)
(* same session again.                                                       *)
C21_WriteFailureSurfaced ==
    \A i \in 1..Len(finalizations) :
        (finalizations[i].found /\ finalizations[i].result \in {"dberror", "norow"})
        => /\ finalizations[i].by = "notification"
              => finalizations[i].returned["success"] = PyBool(FALSE)
           /\ \A j \in Writes(finalizations[i].call) :
                  j /= i => finalizations[j].sid /= finalizations[i].sid

(* what a message carries *)
TranscriptOf(request_data) == Get(request_data, "transcript", <<>>)

AsksForResponse(request_data) ==
    /\ Get(request_data, "response_type", "") /= "ping_pong"
    /\ Get(request_data, "interaction_type", "") = "response_required"

(* a text without the blanks around it *)
NonBlankAt(text) == {i \in 1..Len(text) : text[i] /= " "}

Trimmed(text) ==
    IF NonBlankAt(text) = {} THEN <<>>
    ELSE SubSeq(text,
                CHOOSE i \in NonBlankAt(text) : \A j \in NonBlankAt(text) : i <= j,
                CHOOSE i \in NonBlankAt(text) : \A j \in NonBlankAt(text) : j <= i)

(* the places of a transcript where the user says something *)
Utterances(transcript) ==
    {i \in 1..Len(transcript) :
         transcript[i].role = "user" /\ NonBlankAt(transcript[i].content) /= {}}

Latest(S) == CHOOSE i \in S : \A j \in S : j <= i

(* the step consumes a message on the connection *)
Receives(c) == received'[c].n = received[c].n + 1

(* C22: the utterance of a response_required message is the trimmed content  *)
(* of the latest user entry with non-blank content; a response_required      *)
(* message without such an entry leaves the handler receiving, with no       *)
(* policy call, nothing sent and the store unchanged.                        *)
C22_UtteranceOrWait ==
    [][\A c \in CallIds :
           (Receives(c) /\ AsksForResponse(received'[c].last))
           => LET transcript == TranscriptOf(received'[c].last)
              IN  IF Utterances(transcript) /= {}
                  THEN /\ nTurns'[c] = nTurns[c] + 1
                       /\ lastTurn'[c].user_input
                              = Trimmed(transcript[Latest(Utterances(transcript))].content)
                  ELSE /\ hpc'[c] = "recv"
                       /\ nTurns' = nTurns
                       /\ lastTurn' = lastTurn
                       /\ outbound' = outbound
                       /\ hlocal' = hlocal
                       /\ active_calls' = active_calls]_vars

(* a session holds the data and transcript of a turn whose utterance was not *)
(* the last entry, and a response_required message with nothing but a blank  *)
(* user entry has been consumed since                                        *)
C22_Witness ==
    \E c \in DOMAIN active_calls :
        /\ hpc[c] = "recv"
        /\ nTurns[c] = 1
        /\ lastTurn[c].user_input = <<"h", "i">>
        /\ active_calls[c]["full_transcript"] = T_authoritative
        /\ received[c].n = 3
        /\ AsksForResponse(received[c].last)
        /\ TranscriptOf(received[c].last) = T_nouser

(* the entries that may go into the context: not the utterance itself, with  *)
(* content that is neither blank nor equal to the utterance                  *)
Eligible(transcript) ==
    LET at == Latest(Utterances(transcript))
        utterance == Trimmed(transcript[at].content)
    IN  {i \in 1..Len(transcript) :
             /\ i /= at
             /\ NonBlankAt(transcript[i].content) /= {}
             /\ Trimmed(transcript[i].content) /= utterance}

RECURSIVE InOrder(_, _)
InOrder(transcript, S) ==
    IF S = {} THEN <<>>
    ELSE Append(InOrder(transcript, S \ {Latest(S)}),
                [role |-> IF transcript[Latest(S)].role = "agent" THEN "assistant" ELSE "user",
                 content |-> Trimmed(transcript[Latest(S)].content)])

(* C23: the context given to the policy holds the last six eligible entries  *)
(* of the transcript received, in their order: at most six, none blank, none *)
(* equal to the utterance, the utterance itself not among them.              *)
C23_ContextWindow ==
    \A c \in CallIds :
        hpc[c] = "respond"
        => LET transcript == TranscriptOf(received[c].last)
               context == lastTurn[c].conversation_history
               all == InOrder(transcript, Eligible(transcript))
           IN  /\ Len(context) <= 6
               /\ \A i \in 1..Len(context) :
                      /\ context[i].content /= <<>>
                      /\ context[i].content /= lastTurn[c].user_input
               /\ context = IF Len(all) <= 6 THEN all
                            ELSE SubSeq(all, Len(all) - 5, Len(all))

(* C24: a ping_pong, an update_only and a message of any other kind are      *)
(* consumed with no policy call, nothing sent and the store unchanged; the   *)
(* handler receives again.                                                   *)
C24_OtherKindsDiscarded ==
    [][\A c \in CallIds :
           (Receives(c) /\ ~AsksForResponse(received'[c].last))
           => /\ hpc'[c] = "recv"
              /\ nTurns' = nTurns
              /\ lastTurn' = lastTurn
              /\ outbound' = outbound
              /\ hlocal' = hlocal
              /\ active_calls' = active_calls
              /\ sessGen' = sessGen]_vars

(* after a turn, an update_only with a longer transcript has been consumed   *)
(* and the session still holds the transcript of the turn                    *)
C24_Witness ==
    \E c \in DOMAIN active_calls :
        /\ hpc[c] = "recv"
        /\ nTurns[c] = 1
        /\ Get(received[c].last, "interaction_type", "") = "update_only"
        /\ Len(TranscriptOf(received[c].last)) > Len(active_calls[c]["full_transcript"])
        /\ Len(outbound[c]) = 2

(* the turn responses sent on a connection after the greeting *)
TurnResponses(c) ==
    SelectSeq(outbound[c], LAMBDA m : IsTurnResponse(m) /\ m.response_id /= 0)

(* C25: every processed turn has one response: it is pending after the turn  *)
(* and sent, complete and with the response_id of the message, before the    *)
(* handler consumes another message; nothing else is sent for the turn.      *)
C25_OneResponsePerTurn ==
    [][\A c \in CallIds :
           /\ Len(TurnResponses(c)') = nTurns'[c] - (IF hpc'[c] = "respond" THEN 1 ELSE 0)
           /\ nTurns'[c] = nTurns[c] + 1 => hpc'[c] = "respond"
           /\ hpc[c] = "respond"
              => /\ received'[c] = received[c]
                 /\ nTurns'[c] = nTurns[c]
                 /\ outbound'[c] /= outbound[c]
                    => /\ outbound'[c] = Append(outbound[c], hlocal[c].response)
                       /\ hlocal[c].response.content_complete = TRUE
                       /\ "response_id" \in DOMAIN received[c].last
                          => hlocal[c].response.response_id = received[c].last["response_id"]
                       /\ hpc'[c] = "recv"]_vars

(* two turns answered, the first numbered 7 by Retell, the second without a  *)
(* number                                                                    *)
C25_Witness ==
    \E c \in CallIds :
        /\ hpc[c] = "recv"
        /\ nTurns[c] = 2
        /\ Len(outbound[c]) = 3
        /\ outbound[c][2].response_id = 7
        /\ outbound[c][3].response_id = 1
        /\ "response_id" \notin DOMAIN received[c].last

(* the step processes a turn on a session that was in the store before it *)
TurnOnSession(c) ==
    /\ nTurns'[c] = nTurns[c] + 1
    /\ c \in DOMAIN active_calls
    /\ sessGen'[c] = sessGen[c]

(* C30 as stated: each processed turn stores the transcript of its message   *)
(* in place of the stored one, and the stored transcript of a session is     *)
(* never shorter after a turn than before it.                                *)
C30_TranscriptNeverShrinks ==
    [][\A c \in CallIds :
           /\ nTurns'[c] = nTurns[c] + 1
              => active_calls'[c]["full_transcript"] = TranscriptOf(received'[c].last)
           /\ TurnOnSession(c)
              => Len(active_calls'[c]["full_transcript"])
                     >= Len(Get(active_calls[c], "full_transcript", <<>>))]_vars

(* C30, amended: each processed turn stores the transcript of its message in *)
(* place of the stored one, whatever was stored; the stored transcript is    *)
(* not shorter than before whenever the transcript received is not shorter   *)
(* than the stored one.                                                      *)
C30_TranscriptReplaced ==
    [][\A c \in CallIds :
           /\ nTurns'[c] = nTurns[c] + 1
              => active_calls'[c]["full_transcript"] = TranscriptOf(received'[c].last)
           /\ (/\ TurnOnSession(c)
               /\ Len(TranscriptOf(received'[c].last))
                      >= Len(Get(active_calls[c], "full_transcript", <<>>)))
              => Len(active_calls'[c]["full_transcript"])
                     >= Len(Get(active_calls[c], "full_transcript", <<>>))]_vars

(* the second turn of a session has put the two entries of its message in    *)
(* place of the transcript the first turn stored                             *)
C30_Witness ==
    \E c \in DOMAIN active_calls :
        /\ nTurns[c] = 2
        /\ sessGen[c] = 1
        /\ Len(lastTurn[c].conversation_history) = 1
        /\ Get(lastTurn[c].accumulated_data, "tool_used", PyNone) /= PyNone
        /\ active_calls[c]["full_transcript"] = Transcript(1)

(* the context fields of a stored session *)
ContextFields == {"driver_name", "load_number", "phone_number"}

(* C28: the context fields driver_name, load_number and phone_number of a    *)
(* session are fixed when the session is created: whatever step is taken,    *)
(* a session that is in the store before and after it has the same context   *)
(* fields with the same values; turns, merges and transcript replacements    *)
(* leave them alone.                                                         *)
C28_ContextImmutable ==
    [][\A c \in CallIds :
          (/\ c \in DOMAIN active_calls
           /\ c \in DOMAIN active_calls'
           /\ sessGen'[c] = sessGen[c])
          => /\ DOMAIN active_calls'[c] \cap ContextFields
                    = DOMAIN active_calls[c] \cap ContextFields
             /\ \A k \in DOMAIN active_calls[c] \cap ContextFields :
                    active_calls'[c][k] = active_calls[c][k]]_vars

(* the session create_web_call registered has been through two turns: the    *)
(* second merged into data the first had stored and replaced its            *)
(* transcript; the context is the one of the registration                    *)
C28_Witness ==
    \E c \in regd :
        /\ c \in DOMAIN active_calls
        /\ sessGen[c] = 1
        /\ nTurns[c] = 2
        /\ Get(active_calls[c], "full_transcript", <<>>) = Transcript(2)
        /\ Get(active_calls[c], "extracted_data", EmptyDict) /= EmptyDict
        /\ Restrict(active_calls[c], ContextFields)
               = [driver_name |-> "Sam", load_number |-> "482", phone_number |-> "555"]

(* the names a call was created with, or the ones the handler falls back on *)
(* for a call that was created with none                                     *)
NamesOf(c) ==
    [driver_name |-> Get(metadata[c], "driver_name", "Driver"),
     load_number |-> Get(metadata[c], "load_number", "your load")]

HoldsNames(session, names) ==
    /\ Get(session, "driver_name", "") = names.driver_name
    /\ Get(session, "load_number", "") = names.load_number

(* C29: a session is in the store for a call id from its first reference     *)
(* until finalization: once a registration has stored the call, and once    *)
(* the first turn of a call no registration stored has been processed, the   *)
(* store holds a session with the driver_name and load_number of that call,  *)
(* and a step that takes a session out of the store is a finalizer run for   *)
(* that call id.                                                             *)
C29_SessionFromFirstReference ==
    [][\A c \in CallIds :
          /\ (c \notin regd /\ c \in regd')
              => /\ c \in DOMAIN active_calls'
                 /\ HoldsNames(active_calls'[c], NamesOf(c)')
          /\ (c \notin regd /\ nTurns[c] = 0 /\ nTurns'[c] = 1)
              => /\ c \in DOMAIN active_calls'
                 /\ HoldsNames(active_calls'[c], NamesOf(c))
          /\ (c \in DOMAIN active_calls /\ c \notin DOMAIN active_calls')
              => /\ Len(finalizations') = Len(finalizations) + 1
                 /\ finalizations'[Len(finalizations')].call = c]_vars

(* what the process holds for one call id: its session, its ping task, its   *)
(* record                                                                    *)
OfCall(c) ==
    [session |-> IF c \in DOMAIN active_calls THEN <<active_calls[c]>> ELSE <<>>,
     ping    |-> ping[c],
     record  |-> IF c \in DOMAIN db THEN <<db[c]>> ELSE <<>>]

(* the step is a turn, a timeout, a keepalive emission or a finalization     *)
(* for c                                                                     *)
ActsFor(c) ==
    \/ nTurns'[c] = nTurns[c] + 1
    \/ timeouts'[c] = timeouts[c] + 1
    \/ NumPings(c)' = NumPings(c) + 1
    \/ /\ Len(finalizations') = Len(finalizations) + 1
       /\ finalizations'[Len(finalizations')].call = c

(* C27: sessions are independent: a turn, a timeout, a keepalive emission or *)
(* a finalization for one call id leaves the session, the ping task and the  *)
(* record of every other call id as they were.                               *)
C27_SessionsIndependent ==
    [][\A c \in CallIds : \A d \in CallIds \ {c} :
          ActsFor(c) => OfCall(d)' = OfCall(d)]_vars

(* one call has been finalized and is out of the store, after a turn, a      *)
(* timeout and a ping of its own, while the other call is in its             *)
(* conversation: its session holds the data of its turn, its ping task runs, *)
(* its record is as it was created                                           *)
C27_Witness ==
    \E c \in CallIds : \E d \in CallIds \ {c} :
        /\ hpc[c] = "closed" /\ nTurns[c] = 1 /\ timeouts[c] = 1 /\ NumPings(c) = 1
        /\ DisconnectRuns(c) /= {}
        /\ c \notin DOMAIN active_calls
        /\ c \in DOMAIN db /\ db[c]["call_status"] = PyStr("completed")
        /\ hpc[d] = "recv" /\ nTurns[d] = 1
        /\ d \in DOMAIN active_calls
        /\ Get(active_calls[d], "full_transcript", <<>>) = Transcript(1)
        /\ ping[d] = "running"
        /\ d \in DOMAIN db /\ db[d]["call_status"] /= PyStr("completed")

(* C26: no operation of one session blocks the process: while the policy     *)
(* call of one session is outstanding, the ping task of every session that   *)
(* has a ping to send, that session's own included, can send it, and the     *)
(* handler of every other session that has a greeting or a response to send  *)
(* can take its step.                                                        *)
C26_NoProcessWideBlocking ==
    \A c \in CallIds :
        hpc[c] = "policy"
        => \A d \in CallIds :
               /\ (ping[d] = "running" /\ NumPings(d) < MaxPings)
                  => ENABLED LoopPingSend(d)
               /\ (d /= c /\ hpc[d] \in {"greeting", "respond"})
                  => ENABLED LoopHandlerStep(d)

(* the extracted_data of the session stored for c, empty when there is none *)
Accumulated(c) == Get(CallData(c), "extracted_data", EmptyDict)

(* data laid over accumulated data: the populated fields of the data take    *)
(* the place of the accumulated ones, every other accumulated field stays    *)
Overlay(accumulated, data) ==
    LET populated == {k \in DOMAIN data : NonEmpty(data[k])}
    IN  [k \in DOMAIN accumulated \cup populated |->
            IF k \in populated THEN data[k] ELSE accumulated[k]]

(* the step processes a turn of c *)
ProcessesTurn(c) == nTurns'[c] = nTurns[c] + 1

(* C31: on each processed turn the policy adapter is given the               *)
(* extracted_data of the session as the earlier turns of the call left it,   *)
(* before the merge of this turn: what the store holds when the turn starts, *)
(* which on a session that has had a turn is the data that turn was given    *)
(* with the fields it returned laid over them.  The fields the adapter       *)
(* returns are merged into the same mapping within the turn, before the      *)
(* handler sends the response and reads again.                               *)
C31_AccumulatedInMergedOut ==
    [][\A c \in CallIds :
          ProcessesTurn(c)
          => /\ lastTurn'[c].accumulated_data = Accumulated(c)
             /\ (c \in DOMAIN active_calls /\ lastTurn[c].n > 0)
                => lastTurn'[c].accumulated_data
                      = Overlay(lastTurn[c].accumulated_data, lastTurn[c].extracted_data)
             /\ Accumulated(c)'
                   = Overlay(lastTurn'[c].accumulated_data, lastTurn'[c].extracted_data)
             /\ hpc'[c] = "respond"]_vars

(* the second turn of a session was given the fields of the first and has    *)
(* merged an emergency into them                                             *)
C31_Witness ==
    \E c \in DOMAIN active_calls :
        /\ lastTurn[c].n = 2
        /\ hpc[c] = "respond"
        /\ Get(lastTurn[c].accumulated_data, "tool_used", PyNone)
               = PyStr("handle_routine_checkin")
        /\ Get(lastTurn[c].extracted_data, "tool_used", PyNone)
               = PyStr("handle_emergency_protocol")
        /\ Accumulated(c) /= lastTurn[c].accumulated_data
        /\ Accumulated(c) /= MergeFilter(lastTurn[c].extracted_data)
        /\ Accumulated(c)["tool_used"] = PyStr("handle_emergency_protocol")

(* the step is a run of the disconnect finalizer for c *)
FinalizesOnDisconnect(c) ==
    /\ Len(finalizations') = Len(finalizations) + 1
    /\ finalizations'[Len(finalizations')].call = c
    /\ finalizations'[Len(finalizations')].by = "disconnect"

(* the response of the last turn of c was never sent *)
LastResponseUnsent(c) ==
    /\ nTurns[c] > 0
    /\ Len(TurnResponses(c)) < nTurns[c]

(* C32: within a processed turn the merge of the returned fields and the     *)
(* replacement of the transcript come before the response is sent: when the  *)
(* send of the response fails and the handler ends, the write the disconnect *)
(* finalizer issues carries the transcript of that turn and every populated  *)
(* field the turn returned, and the row holds them when the write succeeds.  *)
C32_StoredBeforeSend ==
    [][\A c \in CallIds :
          (FinalizesOnDisconnect(c) /\ LastResponseUnsent(c))
          => LET run == finalizations'[Len(finalizations')]
                 fields == {k \in DOMAIN lastTurn[c].extracted_data :
                                NonEmpty(lastTurn[c].extracted_data[k])}
             IN  /\ run.result /= "raised"
                    => /\ run.update_data["full_transcript"] = Transcript(nTurns[c])
                       /\ \A k \in fields :
                              /\ k \in DOMAIN run.update_data["structured_data"]
                              /\ run.update_data["structured_data"][k]
                                     = lastTurn[c].extracted_data[k]
                 /\ run.result = "ok"
                    => /\ db'[c]["full_transcript"] = <<"json", Transcript(nTurns[c])>>
                       /\ \A k \in fields :
                              db'[c]["structured_data"][2][k]
                                  = lastTurn[c].extracted_data[k]]_vars

(* the response of the only turn of a call was never sent, the handler has   *)
(* ended, and the row holds the transcript and the driver status of the turn *)
C32_Witness ==
    \E c \in DOMAIN db :
        /\ hpc[c] = "closed"
        /\ nTurns[c] = 1
        /\ TurnResponses(c) = <<>>
        /\ \E i \in DisconnectRuns(c) : finalizations[i].result = "ok"
        /\ db[c]["full_transcript"] = <<"json", Transcript(1)>>
        /\ db[c]["driver_status"] = PyStr("Driving")
        /\ db[c]["structured_data"][2]["driver_status"] = PyStr("Driving")

(* the structured data of the row of c are a fallback summary: nothing but   *)
(* a call_outcome, a confidence and a summary                                *)
FallbackRecord(row) ==
    /\ row["structured_data"] /= PyNone
    /\ DOMAIN row["structured_data"][2] \subseteq {"call_outcome", "confidence", "summary"}

(* the row holds a transcript and structured data with extracted fields *)
RecordComplete(row) ==
    /\ row["full_transcript"] /= PyNone
    /\ row["structured_data"] /= PyNone
    /\ ~FallbackRecord(row)

(* C33: once the record of a call holds a non-empty transcript and           *)
(* structured data written by one trigger, no later step for that call id    *)
(* puts an empty transcript or a fallback summary in their place.            *)
C33_RecordNotDegraded ==
    [][\A c \in DOMAIN db :
          RecordComplete(db[c])
          => /\ db'[c]["full_transcript"] /= PyNone
             /\ ~FallbackRecord(db'[c])]_vars

(* the record a write carries: the transcript, the structured fields, the    *)
(* columns taken from them                                                   *)
RecordOf(update_data) ==
    [full_transcript |-> update_data["full_transcript"],
     structured_data |-> update_data["structured_data"],
     columns |-> Restrict(update_data, FinalizerColumns)]

(* C34: for every state a session can be in, the notification that supplies *)
(* no transcript and the disconnect would persist the same record: the same  *)
(* transcript and the same structured fields, call_outcome, confidence and   *)
(* summary among them.                                                       *)
C34_TriggersAgree ==
    \A c \in DOMAIN active_calls :
        RecordOf(WebhookUpdateData(active_calls[c], <<>>))
            = RecordOf(DisconnectUpdateData(active_calls[c]))

(* C35: every update of a record a finalizer issues is for a call id whose   *)
(* record was created before: create_call_result was issued for it, which    *)
(* for a call registered through create_web_call happens before any update   *)
(* for that call id.                                                         *)
C35_CreateBeforeUpdate ==
    \A i \in 1..Len(finalizations) :
        finalizations[i].result /= "raised"
        => /\ finalizations[i].call \in created
           /\ finalizations[i].call \notin createTasks

(* the chat completion came back with a tool call the adapter could read,    *)
(* and the first one is the emergency protocol                               *)
EmergencyChosen(reply) ==
    /\ ~reply.raised
    /\ reply.tool_calls /= <<>>
    /\ reply.tool_calls[1].valid
    /\ reply.tool_calls[1].name = "handle_emergency_protocol"

(* C36: after every processed turn the accumulated is_emergency of the       *)
(* session is the one the adapter returned for that turn, whether the tool   *)
(* call was read or the fallback was taken: true when the emergency protocol *)
(* was chosen, false otherwise, so that a routine check-in, an end_call or a *)
(* failed completion resets an emergency an earlier turn had flagged.        *)
C36_EmergencyFollowsLastTurn ==
    \A c \in DOMAIN active_calls :
        lastTurn[c].n > 0
        => /\ "is_emergency" \in DOMAIN Accumulated(c)
           /\ Accumulated(c)["is_emergency"] = lastTurn[c].extracted_data["is_emergency"]
           /\ Accumulated(c)["is_emergency"] = PyBool(EmergencyChosen(lastTurn[c].reply))

(* the second turn was given data with the emergency flagged, its completion *)
(* raised, and the session holds is_emergency false with the emergency type  *)
(* of the first turn                                                         *)
C36_Witness ==
    \E c \in DOMAIN active_calls :
        /\ lastTurn[c].n = 2
        /\ Get(lastTurn[c].accumulated_data, "is_emergency", PyNone) = PyBool(TRUE)
        /\ lastTurn[c].reply.raised
        /\ Accumulated(c)["is_emergency"] = PyBool(FALSE)
        /\ Get(Accumulated(c), "emergency_type", PyNone) = PyStr("Accident")

(* the numbers of the turn responses sent on the connection of c, in order *)
ResponseIds(c) ==
    [i \in 1..Len(TurnResponses(c)) |-> TurnResponses(c)[i].response_id]

(* C37: the turns of a connection are processed strictly one at a time: a    *)
(* policy call is outstanding only when every earlier turn of the connection *)
(* has had its response sent, at most one turn is ever without its response, *)
(* and the responses go out in the order their messages came in (the n-th    *)
(* message is numbered n).                                                   *)
C37_OneTurnAtATime ==
    \A c \in CallIds :
        /\ hpc[c] = "policy" => Len(TurnResponses(c)) = nTurns[c]
        /\ Len(TurnResponses(c)) \in {nTurns[c] - 1, nTurns[c]}
        /\ Len(TurnResponses(c)) = nTurns[c] - 1 => hpc[c] = "respond"
        /\ ResponseIds(c) = [i \in 1..Len(TurnResponses(c)) |-> i]

(* the policy call of the second turn of a connection is outstanding, and    *)
(* the response of its first turn has been sent                              *)
C37_Witness ==
    \E c \in CallIds :
        /\ hpc[c] = "policy"
        /\ nTurns[c] = 1
        /\ ResponseIds(c) = <<1>>
        /\ received[c].n = 1

(* the first message sent on the connection of c is the greeting *)
GreetingSentFirst(messages) ==
    /\ messages /= <<>>
    /\ IsTurnResponse(messages[1])
    /\ messages[1].response_id = 0

(* C38: the ping task of a connection is started only once the greeting has  *)
(* been sent, and it sends nothing when it starts: its first ping_pong goes  *)
(* out in a later step, after its first sleep, so every ping_pong on a       *)
(* connection comes after the greeting.                                      *)
C38_NoPingBeforeGreeting ==
    [][\A c \in CallIds :
          /\ (ping[c] = "none" /\ ping'[c] /= "none")
             => /\ GreetingSentFirst(outbound'[c])
                /\ NumPings(c)' = 0
          /\ NumPings(c)' > NumPings(c)
             => /\ ping[c] = "running"
                /\ GreetingSentFirst(outbound[c])]_vars

(* a connection on which the greeting and then a ping_pong were sent, and    *)
(* nothing else                                                              *)
C38_Witness ==
    \E c \in CallIds :
        /\ Len(outbound[c]) = 2
        /\ GreetingSentFirst(outbound[c])
        /\ outbound[c][2] = PingPong
        /\ ping[c] = "running"

====
